---- MODULE Spec2Model ----
(***************************************************************************)
(* JsonIndexer (src/index.ts): the streaming record indexer.               *)
(*                                                                         *)
(* A file is a sequence of bytes; a text is a sequence of one-character    *)
(* strings.  The alphabet of the files of this model is                    *)
(*     { } [ ] " : ,   the letters a b c d i k m n o x z   the digits 0-9  *)
(* so no whitespace, no backslash escape, no JSON literal (true, false,    *)
(* null), no sign, fraction or exponent can occur in any text the model    *)
(* hands to JSONParse, which is complete for this alphabet.                *)
(* Indices are 0-based where the operator models a JavaScript method.      *)
(***************************************************************************)
EXTENDS Integers, Sequences, FiniteSets, TLC

\* ---------------------------------------------------------------- bounds

\* The chunk sizes 1..MaxChunk are tried, and the constructor's default.
MaxChunk == 7

\* At most this many records in the target array.
MaxRecords == 2

\* constructor(file, chunkSize = 1024 * 1024)
DefaultChunkSize == 1048576

\* ------------------------------------------------- JavaScript string methods

Min(a, b) == IF a < b THEN a ELSE b

Max(a, b) == IF a < b THEN b ELSE a

SetMin(S) == CHOOSE x \in S : \A y \in S : x <= y

SetMax(S) == CHOOSE x \in S : \A y \in S : y <= x

\* String.prototype.indexOf(pat, from): -1 when pat does not occur at or
\* after from; from is clamped to [0, length].
IndexOf(s, pat, from) ==
  LET f == Max(0, Min(from, Len(s)))
      hits == {i \in f..(Len(s) - Len(pat)) : SubSeq(s, i + 1, i + Len(pat)) = pat}
  IN IF hits = {} THEN -1 ELSE SetMin(hits)

\* String.prototype.includes(pat)
Includes(s, pat) == IndexOf(s, pat, 0) # -1

\* String.prototype.lastIndexOf(ch), ch one character
LastIndexOf(s, ch) ==
  LET hits == {i \in 0..(Len(s) - 1) : s[i + 1] = ch}
  IN IF hits = {} THEN -1 ELSE SetMax(hits)

\* String.prototype.slice(start): a negative start counts from the end.
StrSlice(s, start) ==
  LET st == IF start < 0 THEN Max(Len(s) + start, 0) ELSE Min(start, Len(s))
  IN SubSeq(s, st + 1, Len(s))

\* String.prototype.substring(a, b) for 0 <= a <= b <= length
Substring(s, a, b) == SubSeq(s, a + 1, b)

\* ------------------------------------------------------------- JSON.parse

Q == "\""

IsDigit(ch) == ch \in {"0", "1", "2", "3", "4", "5", "6", "7", "8", "9"}

\* A parsed value: its JSON type and its text.  undefined is the value of a
\* property the object does not have.
Val(t, v) == [t |-> t, v |-> v]

Undefined == Val("undefined", <<>>)

ParseFail == [ok |-> FALSE, next |-> 0, val |-> Undefined, fields |-> <<>>]

ParseOk(next, val, fields) == [ok |-> TRUE, next |-> next, val |-> val, fields |-> fields]

\* A string token at s[p]: up to the next quote.
ParseString(s, p) ==
  IF p > Len(s) \/ s[p] # Q THEN ParseFail
  ELSE LET close == {q \in (p + 1)..Len(s) : s[q] = Q}
       IN IF close = {} THEN ParseFail
          ELSE LET q == SetMin(close)
               IN ParseOk(q + 1, Val("str", SubSeq(s, p + 1, q - 1)), <<>>)

\* A number token at s[p]: "0", or a run of digits not starting with 0.
ParseNumber(s, p) ==
  IF p > Len(s) \/ ~IsDigit(s[p]) THEN ParseFail
  ELSE IF s[p] = "0" THEN ParseOk(p + 1, Val("num", <<"0">>), <<>>)
  ELSE LET stop == {q \in (p + 1)..(Len(s) + 1) : q = Len(s) + 1 \/ ~IsDigit(s[q])}
           q == SetMin(stop)
       IN ParseOk(q, Val("num", SubSeq(s, p, q - 1)), <<>>)

RECURSIVE ParseValue(_, _), ParseMembers(_, _, _), ParseElements(_, _)

\* The members of an object from s[p], after "{" or ","; a repeated key
\* keeps its last value.
ParseMembers(s, p, acc) ==
  LET k == ParseString(s, p)
  IN IF ~k.ok \/ k.next > Len(s) \/ s[k.next] # ":" THEN ParseFail
     ELSE LET v == ParseValue(s, k.next + 1)
              now == (k.val.v :> v.val) @@ acc
          IN IF ~v.ok \/ v.next > Len(s) THEN ParseFail
             ELSE IF s[v.next] = "}" THEN ParseOk(v.next + 1, Undefined, now)
             ELSE IF s[v.next] = "," THEN ParseMembers(s, v.next + 1, now)
             ELSE ParseFail

\* The elements of an array from s[p], after "[" or ",".
ParseElements(s, p) ==
  LET v == ParseValue(s, p)
  IN IF ~v.ok \/ v.next > Len(s) THEN ParseFail
     ELSE IF s[v.next] = "]" THEN ParseOk(v.next + 1, Undefined, <<>>)
     ELSE IF s[v.next] = "," THEN ParseElements(s, v.next + 1)
     ELSE ParseFail

\* One JSON value at s[p].
ParseValue(s, p) ==
  IF p > Len(s) THEN ParseFail
  ELSE IF s[p] = Q THEN ParseString(s, p)
  ELSE IF IsDigit(s[p]) THEN ParseNumber(s, p)
  ELSE IF s[p] = "{" THEN
    LET r == IF p < Len(s) /\ s[p + 1] = "}"
             THEN ParseOk(p + 2, Undefined, <<>>)
             ELSE ParseMembers(s, p + 1, <<>>)
    IN IF r.ok THEN ParseOk(r.next, Val("obj", SubSeq(s, p, r.next - 1)), r.fields)
       ELSE ParseFail
  ELSE IF s[p] = "[" THEN
    LET r == IF p < Len(s) /\ s[p + 1] = "]"
             THEN ParseOk(p + 2, Undefined, <<>>)
             ELSE ParseElements(s, p + 1)
    IN IF r.ok THEN ParseOk(r.next, Val("arr", SubSeq(s, p, r.next - 1)), <<>>)
       ELSE ParseFail
  ELSE ParseFail

\* JSON.parse(s): ok is FALSE where JSON.parse throws (also on text after
\* the value); fields are the properties of a parsed object.
JSONParse(s) ==
  LET r == ParseValue(s, 1)
  IN IF r.ok /\ r.next = Len(s) + 1 THEN r ELSE ParseFail

\* record[name], undefined when the object has no such property.
Prop(record, name) ==
  IF name \in DOMAIN record.fields THEN record.fields[name] ELSE Undefined

\* ------------------------------------------------------------ File (Blob)

\* Blob.slice(start, end) clamps both ends to the size of the file.
FileSlice(bytes, start, end) ==
  SubSeq(bytes, Min(start, Len(bytes)) + 1, Min(end, Len(bytes)))

\* Blob.text(): UTF-8 decoding.  A byte of the alphabet is the character
\* itself; "C3" "A9" are the two bytes of the character "e'"; a lead byte
\* with no continuation, or a continuation byte with no lead, decodes to the
\* replacement character "FFFD".
BlobText(bytes) ==
  LET n == Len(bytes)
      continues(i) == i > 1 /\ bytes[i] = "A9" /\ bytes[i - 1] = "C3"
      starts == SelectSeq([i \in 1..n |-> i], LAMBDA i : ~continues(i))
  IN [j \in 1..Len(starts) |->
        LET i == starts[j]
        IN IF bytes[i] = "C3" /\ i < n /\ bytes[i + 1] = "A9" THEN "e'"
           ELSE IF bytes[i] \in {"C3", "A9"} THEN "FFFD"
           ELSE bytes[i]]

\* ------------------------------------------------------------- JsonIndexer

ID == <<"i", "d">>

FILEPOSITION == <<"f", "i", "l", "e", "P", "o", "s", "i", "t", "i", "o", "n">>

LENGTH == <<"l", "e", "n", "g", "t", "h">>

\* ['id', 'filePosition', 'length']
BaseKeys == {ID, FILEPOSITION, LENGTH}

Range(s) == {s[i] : i \in DOMAIN s}

\* Object.keys({} as T): the cast is erased when the program is compiled, so
\* the object is the empty object whatever the shape T declares.
ObjectKeysOfEmptyAs(T) == <<>>

\* getMissingKeys<T>(additionalIndexKeys)
GetMissingKeys(T, additionalIndexKeys) ==
  LET allRequiredKeys == SelectSeq(ObjectKeysOfEmptyAs(T), LAMBDA k : k \notin BaseKeys)
  IN SelectSeq(allRequiredKeys, LAMBDA k : k \notin Range(additionalIndexKeys))

\* Mutant of ExtractAdditionalProperties: every property of the record is
\* copied, listed or not.
ExtractEveryProperty(record, additionalIndexKeys) == record.fields

\* extractAdditionalProperties(record, additionalIndexKeys): the listed keys
\* that are in the record, with the record's values.  (No key of this model
\* names a property an object inherits, as toString would.)
ExtractAdditionalProperties(record, additionalIndexKeys) ==
  [k \in {a \in Range(additionalIndexKeys) : a \in DOMAIN record.fields} |->
     record.fields[k]]

\* `"${key}":`
ArrayKey(key) == <<Q>> \o key \o <<Q, ":">>

\* The value stored by index.set(record.id, {...}).  An entry's own fields
\* are id, filePosition and length, then the spread of the extracted ones
\* (no listed key is a base key: RequiredAdditionalKeys<T> excludes them).
Entry(record, contentPosition, startPos, recordStr, additionalIndexKeys) ==
  [id |-> Prop(record, ID),
   filePosition |-> contentPosition + startPos,
   length |-> Len(recordStr),
   extra |-> ExtractAdditionalProperties(record, additionalIndexKeys)]

\* Map.prototype.set
MapSet(map, k, v) == (k :> v) @@ map

\* Mutant of ExtractObjects: a candidate that JSON.parse rejects ends the
\* loop over the buffer.
RECURSIVE ExtractObjectsUntilFailure(_, _, _, _, _, _, _)
ExtractObjectsUntilFailure(buf, from, bracketCount, startPos, idx, contentPos, addKeys) ==
  LET braces == {j \in from..(Len(buf) - 1) : buf[j + 1] \in {"{", "}"}}
  IN IF braces = {} THEN idx
     ELSE LET i == SetMin(braces)
              char == buf[i + 1]
          IN IF char = "{" THEN
               ExtractObjectsUntilFailure(buf, i + 1, bracketCount + 1,
                              IF bracketCount = 0 THEN i ELSE startPos,
                              idx, contentPos, addKeys)
             ELSE IF bracketCount - 1 = 0 THEN
               LET recordStr == Substring(buf, startPos, i + 1)
                   record == JSONParse(recordStr)
               IN IF record.ok
                  THEN ExtractObjectsUntilFailure(buf, i + 1, 0, startPos,
                         MapSet(idx, Prop(record, ID),
                                Entry(record, contentPos, startPos, recordStr, addKeys)),
                         contentPos, addKeys)
                  ELSE idx
             ELSE ExtractObjectsUntilFailure(buf, i + 1, bracketCount - 1, startPos,
                                 idx, contentPos, addKeys)

\* The for loop over the buffer, from character i on: the index it leaves.
\* A character that is no brace changes none of the loop's variables, so the
\* loop is taken up at the next brace.  A candidate that JSON.parse rejects
\* is caught and skipped.
RECURSIVE ExtractObjects(_, _, _, _, _, _, _)
ExtractObjects(buf, from, bracketCount, startPos, idx, contentPos, addKeys) ==
  LET braces == {j \in from..(Len(buf) - 1) : buf[j + 1] \in {"{", "}"}}
  IN IF braces = {} THEN idx
     ELSE LET i == SetMin(braces)
              char == buf[i + 1]
          IN IF char = "{" THEN
               ExtractObjects(buf, i + 1, bracketCount + 1,
                              IF bracketCount = 0 THEN i ELSE startPos,
                              idx, contentPos, addKeys)
             ELSE IF bracketCount - 1 = 0 THEN
               LET recordStr == Substring(buf, startPos, i + 1)
                   record == JSONParse(recordStr)
               IN ExtractObjects(buf, i + 1, 0, startPos,
                    IF record.ok
                    THEN MapSet(idx, Prop(record, ID),
                                Entry(record, contentPos, startPos, recordStr, addKeys))
                    ELSE idx,
                    contentPos, addKeys)
             ELSE ExtractObjects(buf, i + 1, bracketCount - 1, startPos,
                                 idx, contentPos, addKeys)

\* The scan state of one call: the locals of index().
ScanInit == [offset |-> 0, buffer |-> <<>>, index |-> <<>>,
             inArray |-> FALSE, contentPosition |-> 0]

\* Mutant of DetectArray: the buffer is not tested for the key marker.
DetectArrayUntested(st, arrayKey) ==
  IF ~st.inArray
  THEN LET arrayStart == IndexOf(st.buffer, <<"[">>, IndexOf(st.buffer, arrayKey, 0))
       IN [st EXCEPT !.inArray = TRUE,
                     !.contentPosition = st.offset + arrayStart,
                     !.buffer = StrSlice(st.buffer, arrayStart)]
  ELSE st

\* if (!inArray && buffer.includes(arrayKey)) { ... }
DetectArray(st, arrayKey) ==
  IF ~st.inArray /\ Includes(st.buffer, arrayKey)
  THEN LET arrayStart == IndexOf(st.buffer, <<"[">>, IndexOf(st.buffer, arrayKey, 0))
       IN [st EXCEPT !.inArray = TRUE,
                     !.contentPosition = st.offset + arrayStart,
                     !.buffer = StrSlice(st.buffer, arrayStart)]
  ELSE st

\* const lastOpenBracket = buffer.lastIndexOf('{'); ...
Compact(st) ==
  LET lastOpenBracket == LastIndexOf(st.buffer, "{")
  IN IF lastOpenBracket # -1
     THEN [st EXCEPT !.contentPosition = st.contentPosition + lastOpenBracket,
                     !.buffer = StrSlice(st.buffer, lastOpenBracket)]
     ELSE [st EXCEPT !.buffer = <<>>]

\* if (inArray) { ... }
ScanArray(st, addKeys) ==
  IF st.inArray
  THEN Compact([st EXCEPT !.index =
                  ExtractObjects(st.buffer, 0, 0, 0, st.index, st.contentPosition, addKeys)])
  ELSE st

\* Mutant of ProcessChunk: the cursor advances by the length of the text
\* that was read, not by chunkSize.
ProcessChunkByLength(st, text, arrayKey, addKeys, chunk) ==
  LET appended == [st EXCEPT !.buffer = st.buffer \o text]
      scanned == ScanArray(DetectArray(appended, arrayKey), addKeys)
  IN [scanned EXCEPT !.offset = st.offset + Len(text)]

\* Mutant of ProcessChunk: the cursor passes over one byte after every chunk.
ProcessChunkSkipping(st, text, arrayKey, addKeys, chunk) ==
  LET appended == [st EXCEPT !.buffer = st.buffer \o text]
      scanned == ScanArray(DetectArray(appended, arrayKey), addKeys)
  IN [scanned EXCEPT !.offset = st.offset + chunk + 1]

\* The body of the while loop once chunk.text() has resolved to text.
ProcessChunk(st, text, arrayKey, addKeys, chunk) ==
  LET appended == [st EXCEPT !.buffer = st.buffer \o text]
      scanned == ScanArray(DetectArray(appended, arrayKey), addKeys)
  IN [scanned EXCEPT !.offset = st.offset + chunk]

\* ---------------------------------------------------------------- inputs

Str(chars) == <<Q>> \o chars \o <<Q>>

\* "name":value
Member(name, value) == Str(name) \o <<":">> \o value

\* A record of the array as it is written in the file: its bytes, the id it
\* declares, and whether its braces balance.
Kind(bytes, id, balanced) == [bytes |-> bytes, id |-> id, balanced |-> balanced]

\* {"id":"a"}
RecA == Kind(<<"{">> \o Member(ID, Str(<<"a">>)) \o <<"}">>, Val("str", <<"a">>), TRUE)

\* {"id":"c","o":{"n":2}}
RecC == Kind(<<"{">> \o Member(ID, Str(<<"c">>)) \o <<",">>
               \o Member(<<"o">>, <<"{">> \o Member(<<"n">>, <<"2">>) \o <<"}">>) \o <<"}">>,
             Val("str", <<"c">>), TRUE)

\* {"id":"a","n":2}: the id of RecA again, with another length and field
RecA2 == Kind(<<"{">> \o Member(ID, Str(<<"a">>)) \o <<",">> \o Member(<<"n">>, <<"2">>) \o <<"}">>,
              Val("str", <<"a">>), TRUE)

\* {"id":"m"   (the closing brace is missing)
RecOpen == Kind(<<"{">> \o Member(ID, Str(<<"m">>)), Val("str", <<"m">>), FALSE)

\* {"id":"m"}}   (one closing brace too many)
RecShut == Kind(<<"{">> \o Member(ID, Str(<<"m">>)) \o <<"}", "}">>, Val("str", <<"m">>), FALSE)

RecordKinds == {RecA, RecA2, RecC, RecOpen, RecShut}

\* The arrays of the model: at most MaxRecords records, at most one of them
\* with unbalanced braces.
Arrays ==
  {a \in UNION {[1..n -> RecordKinds] : n \in 0..MaxRecords} :
     Cardinality({i \in DOMAIN a : ~a[i].balanced}) <= 1}

RECURSIVE JoinRecords(_)
JoinRecords(a) ==
  IF a = <<>> THEN <<>>
  ELSE IF Len(a) = 1 THEN a[1].bytes
  ELSE a[1].bytes \o <<",">> \o JoinRecords(Tail(a))

\* Where each record of the array starts in the file and how long it is.
RECURSIVE Spans(_, _)
Spans(a, at) ==
  IF a = <<>> THEN <<>>
  ELSE <<[pos |-> at, len |-> Len(a[1].bytes), kind |-> a[1]]>>
         \o Spans(Tail(a), at + Len(a[1].bytes) + 1)

\* {"<name>":[<records>]} and what it is made of.
Document(name, a) ==
  LET head == <<"{">> \o ArrayKey(name) \o <<"[">>
  IN [bytes |-> head \o JoinRecords(a) \o <<"]", "}">>,
      name |-> name,
      records |-> Spans(a, Len(head))]

KeyK == <<"k">>

\* {"id":}   (the braces balance, the text is not JSON)
RecBad == Kind(<<"{">> \o Str(ID) \o <<":", "}">>, Undefined, TRUE)

\* {"id":"e'"}   (the id is one character of two bytes)
RecE == Kind(<<"{">> \o Str(ID) \o <<":", Q, "C3", "A9", Q, "}">>, Val("str", <<"e'">>), TRUE)

\* {"id":"q"}
RecQ == Kind(<<"{">> \o Member(ID, Str(<<"q">>)) \o <<"}">>, Val("str", <<"q">>), TRUE)

\* Document d with one more top-level member after the array: ,"z":{"id":"q"}
WithTrailingObject(d) ==
  [d EXCEPT !.bytes = SubSeq(d.bytes, 1, Len(d.bytes) - 1)
                        \o <<",">> \o Member(<<"z">>, RecQ.bytes) \o <<"}">>]

\* {"k":{"id":"a"}}: the key is there, no array follows it.
NoArrayDocument ==
  [bytes |-> <<"{">> \o ArrayKey(KeyK) \o RecA.bytes \o <<"}">>,
   name |-> KeyK,
   records |-> <<>>]

\* Documents with a record that does not parse, with a character of two
\* bytes, with an object after the array, and with no array at all.
SpecialDocuments ==
  {Document(KeyK, <<RecBad, RecA>>), Document(KeyK, <<RecA, RecBad>>),
   Document(KeyK, <<RecE>>), Document(KeyK, <<RecE, RecA>>),
   WithTrailingObject(Document(KeyK, <<RecA>>)),
   NoArrayDocument}

\* The documents: the array under the key that is asked for; an array of at
\* most one record under another key; the empty file; the special ones.
Documents ==
  {Document(KeyK, a) : a \in Arrays}
    \cup {Document(<<"x">>, a) : a \in {b \in Arrays : Len(b) <= 1}}
    \cup {[bytes |-> <<>>, name |-> <<>>, records |-> <<>>]}
    \cup SpecialDocuments

ChunkSizes == (1..MaxChunk) \cup {DefaultChunkSize}

\* A target metadata shape T and the additionalIndexKeys given with it.
Shape(extraFields) == <<ID, FILEPOSITION, LENGTH>> \o extraFields

Configs ==
  {[shape |-> Shape(<<<<"n">>>>), keys |-> <<<<"n">>>>],
   [shape |-> Shape(<<<<"n">>, <<"o">>>>), keys |-> <<<<"n">>, <<"o">>>>],
   [shape |-> Shape(<<<<"n">>, <<"o">>>>), keys |-> <<<<"n">>>>]}

\* ----------------------------------------------------------------- state

VARIABLES
  doc,                  \* the document the file holds (bytes: this.file)
  chunkSize,            \* this.chunkSize
  key,                  \* index(key, ...)
  shape,                \* the type argument T of index<T>
  additionalIndexKeys,  \* index(..., additionalIndexKeys)
  pc,                   \* per call: "idle", "loop", "await", "done", "threw"
  scan,                 \* per call: offset, buffer, index, inArray, contentPosition
  text,                 \* per call: what the awaited chunk.text() resolves to
  reads,                \* per call: the ranges asked of file.slice, in order
  missingKeys           \* per call: the keys the thrown Error names

vars == <<doc, chunkSize, key, shape, additionalIndexKeys, pc, scan, text, reads, missingKeys>>

Calls == DOMAIN pc

FileSize == Len(doc.bytes)

InitCalls(calls) ==
  /\ doc \in Documents
  /\ chunkSize \in ChunkSizes
  /\ key = KeyK
  /\ \E cfg \in Configs : shape = cfg.shape /\ additionalIndexKeys = cfg.keys
  /\ pc = [c \in calls |-> "idle"]
  /\ scan = [c \in calls |-> ScanInit]
  /\ text = [c \in calls |-> <<>>]
  /\ reads = [c \in calls |-> <<>>]
  /\ missingKeys = [c \in calls |-> <<>>]

Init == InitCalls({1})

\* Mutant of Locals: the scan state is kept on the indexer, where every call
\* finds the state of the first.
LocalsOnInstance(c) == scan[1]

\* The scan state call c works on: its own locals.
Locals(c) == scan[c]

\* index(): validation, then the declarations before the loop.
Call(c) ==
  /\ pc[c] = "idle"
  /\ LET missing == GetMissingKeys(shape, additionalIndexKeys)
     IN IF Len(missing) > 0
        THEN /\ pc' = [pc EXCEPT ![c] = "threw"]
             /\ missingKeys' = [missingKeys EXCEPT ![c] = missing]
             /\ scan' = scan
        ELSE /\ pc' = [pc EXCEPT ![c] = "loop"]
             /\ scan' = [scan EXCEPT ![c] = ScanInit]
             /\ missingKeys' = missingKeys
  /\ UNCHANGED <<doc, chunkSize, key, shape, additionalIndexKeys, text, reads>>

\* while (offset < this.file.size) { chunk = this.file.slice(...); await chunk.text()
ReadChunk(c) ==
  /\ pc[c] = "loop"
  /\ Locals(c).offset < FileSize
  /\ LET from == Locals(c).offset
         to == Locals(c).offset + chunkSize
     IN /\ text' = [text EXCEPT ![c] = BlobText(FileSlice(doc.bytes, from, to))]
        /\ reads' = [reads EXCEPT ![c] = Append(@, <<from, to>>)]
  /\ pc' = [pc EXCEPT ![c] = "await"]
  /\ UNCHANGED <<doc, chunkSize, key, shape, additionalIndexKeys, scan, missingKeys>>

\* The rest of the loop body, run when the text has arrived.
Resume(c) ==
  /\ pc[c] = "await"
  /\ scan' = [scan EXCEPT ![c] =
                ProcessChunk(Locals(c), text[c], ArrayKey(key), additionalIndexKeys, chunkSize)]
  /\ text' = [text EXCEPT ![c] = <<>>]
  /\ pc' = [pc EXCEPT ![c] = "loop"]
  /\ UNCHANGED <<doc, chunkSize, key, shape, additionalIndexKeys, reads, missingKeys>>

\* The loop condition fails: return index.
Return(c) ==
  /\ pc[c] = "loop"
  /\ ~(Locals(c).offset < FileSize)
  /\ pc' = [pc EXCEPT ![c] = "done"]
  /\ UNCHANGED <<doc, chunkSize, key, shape, additionalIndexKeys, scan, text, reads, missingKeys>>

Next ==
  \/ \E c \in Calls : Call(c)
  \/ \E c \in Calls : ReadChunk(c)
  \/ \E c \in Calls : Resume(c)
  \/ \E c \in Calls : Return(c)

Spec == Init /\ [][Next]_vars

\* index() run alone to the end of its loop, from scan state st.
RECURSIVE RunScan(_, _, _, _, _)
RunScan(st, bytes, arrayKey, addKeys, chunk) ==
  IF st.offset < Len(bytes)
  THEN RunScan(ProcessChunk(st, BlobText(FileSlice(bytes, st.offset, st.offset + chunk)),
                            arrayKey, addKeys, chunk),
               bytes, arrayKey, addKeys, chunk)
  ELSE st

\* The map one index() call returns when nothing else runs.
IndexOfFile(bytes, k, addKeys, chunk) ==
  RunScan(ScanInit, bytes, ArrayKey(k), addKeys, chunk).index

\* Two index() calls on the same indexer, each suspended at its reads, over
\* the documents that hold the array and whose records all balance.
InitConc ==
  /\ InitCalls({1, 2})
  /\ doc.name = key
  /\ \A i \in DOMAIN doc.records : doc.records[i].kind.balanced
  /\ chunkSize >= MaxChunk
  /\ Len(additionalIndexKeys) = 2

SpecConc == InitConc /\ [][Next]_vars

\* ---------------------------------------------------------------- claims

Done(c) == pc[c] = "done"

Result(c) == scan[c].index

\* The file is well-formed JSON: every record's braces balance and every
\* record is JSON.
WellFormed ==
  \A i \in DOMAIN doc.records :
    /\ doc.records[i].kind.balanced
    /\ JSONParse(BlobText(doc.records[i].kind.bytes)).ok

\* Every character of the file is one byte.
Ascii == \A i \in DOMAIN doc.bytes : doc.bytes[i] \notin {"C3", "A9"}

\* The array is under the key that is asked for.
HasTarget == doc.name = key /\ doc.bytes # <<>>

\* The key marker occurs somewhere in the file.
MarkerOccurs ==
  \E i \in 1..(FileSize - Len(ArrayKey(key)) + 1) :
    SubSeq(doc.bytes, i, i + Len(ArrayKey(key)) - 1) = ArrayKey(key)

\* The fields the shape declares besides id, filePosition and length that
\* additionalIndexKeys does not list.
DeclaredMissing ==
  {f \in Range(shape) : f \notin BaseKeys /\ f \notin Range(additionalIndexKeys)}

Ceil(a, b) == (a + b - 1) \div b

\* The record of the array that the file holds at [pos, pos + len).
RecordAt(pos, len) ==
  {i \in DOMAIN doc.records : doc.records[i].pos = pos /\ doc.records[i].len = len}

\* C1: in a well-formed file of one-byte characters, every entry of the
\* returned map locates one complete record of the file,
\* [filePosition, filePosition + length), and that record's id is the key the
\* entry is stored under.
C1_EntriesLocateRecords ==
  \A c \in Calls :
    Done(c) /\ WellFormed /\ Ascii =>
      \A k \in DOMAIN Result(c) :
        \E i \in RecordAt(Result(c)[k].filePosition, Result(c)[k].length) :
          doc.records[i].kind.id = k

\* C2: the map returned does not depend on the chunk size: it is the map
\* returned with any other chunk size.
C2_ChunkSizeIrrelevant ==
  \A c \in Calls :
    Done(c) =>
      \A other \in ChunkSizes :
        Result(c) = IndexOfFile(doc.bytes, key, additionalIndexKeys, other)

\* C3: in a well-formed file the returned map has an entry for the id of
\* every record of the target array.
C3_Complete ==
  \A c \in Calls :
    Done(c) /\ WellFormed /\ HasTarget =>
      \A i \in DOMAIN doc.records : doc.records[i].kind.id \in DOMAIN Result(c)

\* C4: when the key marker occurs nowhere in the file, the call never throws
\* and its map stays empty up to and including the map it returns.
C4_NoMarkerEmptyMap ==
  \A c \in Calls :
    ~MarkerOccurs => pc[c] # "threw" /\ Result(c) = <<>> /\ ~scan[c].inArray

\* A call has returned from a file that holds objects but not the marker.
C4_Witness ==
  \E c \in Calls :
    Done(c) /\ ~MarkerOccurs /\ Len(doc.records) = 1 /\ WellFormed /\ Len(reads[c]) > 1

\* The last record of the array that declares id.
LastWith(id) == SetMax({i \in DOMAIN doc.records : doc.records[i].kind.id = id})

\* C5: when several records share an id, the returned map has one entry for
\* it, with the position, length and extra fields of the last of them.
C5_LastWriteWins ==
  \A c \in Calls :
    Done(c) /\ WellFormed /\ HasTarget =>
      \A i \in DOMAIN doc.records :
        LET id == doc.records[i].kind.id
            last == doc.records[LastWith(id)]
        IN LastWith(id) # i =>
             /\ id \in DOMAIN Result(c)
             /\ Result(c)[id].id = id
             /\ Result(c)[id].filePosition = last.pos
             /\ Result(c)[id].length = last.len
             /\ Result(c)[id].extra =
                  ExtractAdditionalProperties(JSONParse(last.kind.bytes), additionalIndexKeys)

\* C6: a call whose shape declares an additional field that is not listed
\* fails with an error naming every such field, and returns no index.
C6_MissingKeysRejected ==
  \A c \in Calls :
    pc[c] # "idle" /\ DeclaredMissing # {} =>
      pc[c] = "threw" /\ Range(missingKeys[c]) = DeclaredMissing

\* The one record of the array whose braces do not balance.
Malformed == {i \in DOMAIN doc.records : ~doc.records[i].kind.balanced}

\* C7: every valid record that follows the malformed record of the array has
\* an entry in the returned map.
C7_MalformedSkipped ==
  \A c \in Calls :
    Done(c) /\ HasTarget =>
      \A m \in Malformed :
        \A i \in DOMAIN doc.records :
          i > m => doc.records[i].kind.id \in DOMAIN Result(c)

\* The text of the ranges [0,c), [c,2c), ... of the file, each decoded by
\* itself, one after the other: the text a scan with chunk size c appends to
\* its buffer.  A character of two bytes that a range boundary splits is two
\* replacement characters here.
ReadText(bytes, c) ==
  LET n == Len(bytes)
      continues(i) == /\ i > 1 /\ bytes[i] = "A9" /\ bytes[i - 1] = "C3"
                      /\ (i - 1) \div c = (i - 2) \div c
      starts == SelectSeq([i \in 1..n |-> i], LAMBDA i : ~continues(i))
  IN [j \in 1..Len(starts) |->
        LET i == starts[j]
        IN IF bytes[i] = "C3" /\ i < n /\ continues(i + 1) THEN "e'"
           ELSE IF bytes[i] \in {"C3", "A9"} THEN "FFFD"
           ELSE bytes[i]]

\* The text of the file as the call reads it.
FileText == ReadText(doc.bytes, chunkSize)

\* The objects the file text holds at some place with the given length.
ParsedObjects(len) ==
  {JSONParse(SubSeq(FileText, i, i + len - 1)) :
     i \in {j \in 1..(Len(FileText) - len + 1) :
              FileText[j] = "{" /\ FileText[j + len - 1] = "}"}}

\* C8: every entry of the map, at any time, was made from an object of the
\* file with the entry's length and id: besides id, filePosition and length
\* it holds exactly the listed keys that object has, with that object's values.
C8_ExtraFieldsCopied ==
  \A c \in Calls :
    \A k \in DOMAIN Result(c) :
      LET e == Result(c)[k]
      IN \E record \in ParsedObjects(e.length) :
           /\ record.ok
           /\ Prop(record, ID) = k
           /\ e.id = k
           /\ DOMAIN e.extra = Range(additionalIndexKeys) \cap DOMAIN record.fields
           /\ \A f \in DOMAIN e.extra : e.extra[f] = record.fields[f]

\* A returned map with an entry that copied the listed n, and an entry of a
\* record that has the unlisted o and lacks the listed n: nothing is copied.
C8_Witness ==
  \E c \in Calls :
    /\ Done(c)
    /\ additionalIndexKeys = <<<<"n">>>>
    /\ RecA2.id \in DOMAIN Result(c) /\ RecC.id \in DOMAIN Result(c)
    /\ Result(c)[RecA2.id].extra = (<<"n">> :> Val("num", <<"2">>))
    /\ Result(c)[RecC.id].extra = <<>>

\* What holds of the loop of call c at every moment: it has read the ranges
\* [0,c), [c,2c), ... in this order, one per iteration, the cursor is the
\* end of the last range that was processed, and there are never more than
\* ceil(fileSize / chunkSize) reads, and exactly that many at the return.
LoopBounded(c) ==
  /\ \A i \in DOMAIN reads[c] : reads[c][i] = <<(i - 1) * chunkSize, i * chunkSize>>
  /\ scan[c].offset = chunkSize * (IF pc[c] = "await" THEN Len(reads[c]) - 1 ELSE Len(reads[c]))
  /\ Len(reads[c]) <= Ceil(FileSize, chunkSize)
  /\ Done(c) => Len(reads[c]) = Ceil(FileSize, chunkSize)

\* What a step of call c does to its loop: from the loop condition it goes
\* on to a read while the cursor is before the end of the file and returns
\* the index otherwise; after a read it adds chunkSize to the cursor, without
\* another read, and is back at the loop condition.
LoopStep(c) ==
  /\ pc[c] = "loop" => pc'[c] = (IF scan[c].offset < FileSize THEN "await" ELSE "done")
  /\ pc[c] = "loop" => scan'[c] = scan[c]
  /\ pc[c] = "await" =>
       /\ pc'[c] = "loop"
       /\ scan'[c].offset = scan[c].offset + chunkSize
       /\ reads'[c] = reads[c]
  /\ pc[c] = "done" => FALSE

\* C9: the loop of index() runs ceil(fileSize / chunkSize) times, one read
\* each, the cursor advancing by chunkSize each time, and the step after the
\* last iteration returns the index.
C9_Terminates ==
  /\ [](\A c \in Calls : LoopBounded(c))
  /\ [][\A c \in Calls : pc'[c] # pc[c] => LoopStep(c)]_vars

\* A call has returned after several reads, the last one a short chunk.
C9_Witness ==
  \E c \in Calls :
    Done(c) /\ Len(reads[c]) >= 3 /\ FileSize % chunkSize # 0

\* C10: each of two calls on the same file and configuration, however their
\* steps interleave, returns the map a call run alone returns.
C10_CallsIndependent ==
  \A c \in Calls :
    Done(c) => Result(c) = IndexOfFile(doc.bytes, key, additionalIndexKeys, chunkSize)

\* One call has returned a map while the other is suspended mid-scan with a
\* different map.
C10_Witness ==
  /\ Calls = {1, 2}
  /\ Done(1) /\ Result(1) # <<>>
  /\ pc[2] = "await" /\ scan[2].offset > 0
  /\ Result(2) # Result(1)

\* ---------------------------------------------------- claims on the buffer

\* Call c waits for the text of a range; the rest of the loop body is next.
Awaiting(c) == pc[c] = "await"

\* The locals of call c once the text has been appended to the buffer.
Appended(c) == [scan[c] EXCEPT !.buffer = scan[c].buffer \o text[c]]

\* The locals of call c at the start of object extraction in this window:
\* the text is appended and the detection of the array has run.
Detected(c) == DetectArray(Appended(c), ArrayKey(key))

\* The end, as a file offset, of the window call c has read last.
WindowEnd(c) == Min(scan[c].offset + chunkSize, FileSize)

\* The offset in the file of the first '[' after the key marker, -1 if none.
ArrayOffset ==
  IF Includes(FileText, ArrayKey(key))
  THEN IndexOf(FileText, <<"[">>, IndexOf(FileText, ArrayKey(key), 0))
  ELSE -1

\* The number of '{' less the number of '}' among the first n characters.
Depth(buf, n) ==
  Cardinality({j \in 1..n : buf[j] = "{"}) - Cardinality({j \in 1..n : buf[j] = "}"})

\* The index in buf of the '{' that opens the record still open at the end
\* of buf, -1 if no record is open.
OpenRecord(buf) ==
  LET opens == {j \in 0..(Len(buf) - 1) : buf[j + 1] = "{" /\ Depth(buf, j) = 0}
  IN IF Depth(buf, Len(buf)) > 0 /\ opens # {} THEN SetMax(opens) ELSE -1

\* The candidates of buf: <<s, e>> with a '{' at depth 0 at index s and the
\* '}' that brings the depth back to 0 at index e.
Candidates(buf) ==
  {<<SetMax({j \in 0..e : buf[j + 1] = "{" /\ Depth(buf, j) = 0}), e>> :
     e \in {i \in 0..(Len(buf) - 1) : buf[i + 1] = "}" /\ Depth(buf, i + 1) = 0}}

\* C11: when the file is larger than one chunk, the buffer a call retains
\* never holds the entire content of the file, whether or not the key marker
\* has been found, and also when it never occurs.
C11_BufferNeverWholeFile ==
  \A c \in Calls :
    FileSize > chunkSize => scan[c].buffer # FileText

\* C12: in the window in which the key marker becomes visible, the first or
\* a later one, with the '[' after the marker read, the detection sets
\* contentPosition to the file offset of that '[' and leaves the buffer
\* beginning at it.
C12_DetectionAtBracket ==
  \A c \in Calls :
    Awaiting(c) /\ Ascii /\ ArrayOffset \in 0..(WindowEnd(c) - 1)
      /\ ~scan[c].inArray /\ Detected(c).inArray =>
        /\ Detected(c).contentPosition = ArrayOffset
        /\ Detected(c).buffer = SubSeq(FileText, ArrayOffset + 1, WindowEnd(c))

\* contentPosition of st is the file offset of index 0 of st's buffer: the
\* buffer is the file text from contentPosition to end.
BaselineRight(st, end) ==
  /\ st.contentPosition \in 0..end
  /\ st.buffer = SubSeq(FileText, st.contentPosition + 1, end)

\* C13: inside the array, contentPosition is the file offset of buffer index
\* 0 at the start of object extraction in every window: where it is so in one
\* window, it is so again after that window's compaction, which is how the
\* next window finds it, also when the compaction clears the buffer.
C13_BaselineIsBufferStart ==
  \A c \in Calls :
    Awaiting(c) /\ Ascii /\ Detected(c).inArray
      /\ BaselineRight(Detected(c), WindowEnd(c)) =>
        BaselineRight(Compact(Detected(c)), WindowEnd(c))

\* C14: in a well-formed file, the compaction at the end of a window leaves
\* the buffer beginning at the opening '{' of the record that is still open,
\* nested braces or not, and leaves it empty when no record is open.
C14_CompactionKeepsOpenRecord ==
  \A c \in Calls :
    Awaiting(c) /\ WellFormed /\ Detected(c).inArray =>
      LET buf == Detected(c).buffer
          open == OpenRecord(buf)
      IN Compact(Detected(c)).buffer =
           (IF open # -1 THEN StrSlice(buf, open) ELSE <<>>)

\* C15: when the key marker occurs in the file and no '[' follows it, the
\* call returns an empty map, whatever the chunk size, also when objects
\* follow the marker.
C15_NoBracketEmptyMap ==
  \A c \in Calls :
    Done(c) /\ MarkerOccurs /\ ArrayOffset = -1 => Result(c) = <<>>

\* The text of candidate x of buf, and what JSON.parse makes of it.
CandidateStr(buf, x) == Substring(buf, x[1], x[2] + 1)

CandidateRecord(buf, x) == JSONParse(CandidateStr(buf, x))

\* The candidates of buf that JSON.parse accepts.
Parsable(buf) == {x \in Candidates(buf) : CandidateRecord(buf, x).ok}

\* The rest of the loop body runs for call c.
ResumeStep(c) == Awaiting(c) /\ pc'[c] # pc[c]

\* C16: a brace-balanced candidate that fails to parse adds, changes and
\* removes no entry, and the scan goes on in the same buffer: after a window
\* the index is the index before it with, for each id of a candidate of the
\* window that parses, the entry of the last such candidate, and the call is
\* still running.
C16_ParseFailureLocal ==
  [][\A c \in Calls :
       ResumeStep(c) /\ Detected(c).inArray =>
         LET buf == Detected(c).buffer
             idOf(x) == Prop(CandidateRecord(buf, x), ID)
             before == scan[c].index
             after == scan'[c].index
         IN /\ pc'[c] = "loop"
            /\ DOMAIN after = DOMAIN before \cup {idOf(x) : x \in Parsable(buf)}
            /\ \A k \in DOMAIN after :
                 LET mine == {x \in Parsable(buf) : idOf(x) = k}
                     last == CHOOSE x \in mine : \A y \in mine : y[2] <= x[2]
                 IN after[k] =
                      IF mine = {} THEN before[k]
                      ELSE Entry(CandidateRecord(buf, last), Detected(c).contentPosition,
                                 last[1], CandidateStr(buf, last), additionalIndexKeys)]_vars

\* A call has returned on a file whose first record does not parse and whose
\* second does, both read in one window: the map holds the second alone.
C16_Witness ==
  \E c \in Calls :
    /\ Done(c)
    /\ Len(reads[c]) = 1
    /\ Len(doc.records) = 2
    /\ doc.records[1].kind = RecBad
    /\ DOMAIN Result(c) = {doc.records[2].kind.id}

\* Candidate x of call c's buffer is in c's index already: the index has,
\* under the candidate's id, an entry with the candidate's position and
\* length.  (Once the index has an entry the buffer is never cleared again,
\* so positions differ from file offsets by one constant, and two candidates
\* with one position are one record of the file.)
AlreadyInserted(c, x) ==
  LET buf == Appended(c).buffer
      k == Prop(CandidateRecord(buf, x), ID)
  IN /\ k \in DOMAIN scan[c].index
     /\ scan[c].index[k].filePosition = scan[c].contentPosition + x[1]
     /\ scan[c].index[k].length = x[2] - x[1] + 1

\* C17: a record of a well-formed ASCII file with the array is inserted once
\* during one scan: no candidate that a window parses and inserts is a record
\* that an earlier window has inserted.
C17_InsertedOnce ==
  \A c \in Calls :
    Awaiting(c) /\ WellFormed /\ Ascii /\ ArrayOffset # -1 /\ scan[c].inArray =>
      \A x \in Parsable(Appended(c).buffer) : ~AlreadyInserted(c, x)

\* The ranges call c has requested, in the order of the requests, tile the
\* file from offset 0: the first starts at 0, each is chunkSize wide, each
\* starts where the one before it ends, each starts inside the file, and no
\* two are the same range.
RangesInOrder(c) ==
  LET r == reads[c]
  IN /\ r # <<>> => r[1][1] = 0
     /\ \A i \in DOMAIN r : r[i][2] = r[i][1] + chunkSize /\ r[i][1] < FileSize
     /\ \A i \in DOMAIN r : i > 1 => r[i][1] = r[i - 1][2]
     /\ \A i, j \in DOMAIN r : i # j => r[i] # r[j]

\* The ranges of a call that has returned reach the end of the file.
RangesCoverFile(c) ==
  IF FileSize = 0 THEN reads[c] = <<>>
  ELSE reads[c] # <<>> /\ reads[c][Len(reads[c])][2] >= FileSize

\* C18: a call requests the ranges [0,c), [c,2c), ... of the file in this
\* order, each starting where the one before it ends, none twice, up to the
\* end of the file, and requests a range only when no read is outstanding.
C18_ReadProtocol ==
  /\ [](\A c \in Calls : RangesInOrder(c) /\ (Done(c) => RangesCoverFile(c)))
  /\ [][\A c \in Calls :
          reads'[c] # reads[c] =>
            /\ pc[c] = "loop" /\ pc'[c] = "await"
            /\ Len(reads'[c]) = Len(reads[c]) + 1
            /\ SubSeq(reads'[c], 1, Len(reads[c])) = reads[c]]_vars

\* A call has returned after three reads or more.
C18_Witness ==
  \E c \in Calls : Done(c) /\ Len(reads[c]) >= 3 /\ chunkSize > 1

\* C19: in a well-formed file with characters of more than one byte, read in
\* one window, every entry's filePosition is the byte offset of a record of
\* the array with the entry's id and its length is that record's number of
\* bytes.
C19_BytesNotCharacters ==
  \A c \in Calls :
    Done(c) /\ WellFormed /\ ~Ascii /\ Len(reads[c]) = 1 =>
      \A k \in DOMAIN Result(c) :
        \E i \in DOMAIN doc.records :
          /\ doc.records[i].kind.id = k
          /\ Result(c)[k].filePosition = doc.records[i].pos
          /\ Result(c)[k].length = doc.records[i].len

\* C20: in a well-formed ASCII file with the array, every key of the
\* returned map is the id of a top-level element of the array: no key is
\* undefined, none is the id of an object nested in a record or of an object
\* after the array.
C20_OnlyArrayRecords ==
  \A c \in Calls :
    Done(c) /\ WellFormed /\ Ascii /\ HasTarget /\ ArrayOffset # -1 =>
      \A k \in DOMAIN Result(c) :
        /\ k # Undefined
        /\ \E i \in DOMAIN doc.records : doc.records[i].kind.id = k

============================================================================
